---- MODULE Spec2Model ----
(***************************************************************************)
(* Model of nodejs-raw-websocket/server.mjs: one upgraded connection of    *)
(* the raw WebSocket echo server.  The client puts encoded frames on the   *)
(* wire, the transport moves bytes into the socket's read buffer and       *)
(* emits 'readable', and onSocketreadable parses one frame per event with  *)
(* socket.read(n), answering through sendMessage, sendPong or socket.end.  *)
(***************************************************************************)
EXTENDS Integers, Sequences, FiniteSets, TLC

(***************************************************************************)
(* Bounds of the model.                                                    *)
(***************************************************************************)
\* number of frames the client sends on the connection
MaxFrames == 2
\* longest prefix of the pending bytes a single readable event may carry,
\* unless it carries all of them
MaxCut == 9
\* number of readable events that carry only a part of the pending bytes
MaxPartial == 1

(***************************************************************************)
(* Program constants (server.mjs lines 31-58).                             *)
(***************************************************************************)
SEVEN_BIT_INTIGER_MARKER == 125
SIXTEEN_BIT_INTIGER_MARKER == 126
SIXTYFOUR_BIT_INTIGER_MARKER == 127
FIRST_BIT == 128
OPCODE_CONTINUATION == 0
OPCODE_TEXT == 1
OPCODE_BINARY == 2
OPCODE_CLOSE == 8
OPCODE_PING == 9
OPCODE_PONG == 10

OPCODES ==
  {OPCODE_CONTINUATION, OPCODE_TEXT, OPCODE_BINARY, OPCODE_CLOSE, OPCODE_PING,
   OPCODE_PONG}

(***************************************************************************)
(* Bytes and bit operations.                                               *)
(***************************************************************************)
Min(a, b) == IF a <= b THEN a ELSE b

\* a ^ b of JavaScript on two bytes, two bits at a time
XorPair == <<<<0, 1, 2, 3>>, <<1, 0, 3, 2>>, <<2, 3, 0, 1>>, <<3, 2, 1, 0>>>>

\* a & b and a | b likewise
AndPair == <<<<0, 0, 0, 0>>, <<0, 1, 0, 1>>, <<0, 0, 2, 2>>, <<0, 1, 2, 3>>>>
OrPair == <<<<0, 1, 2, 3>>, <<1, 1, 3, 3>>, <<2, 3, 2, 3>>, <<3, 3, 3, 3>>>>

\* a | b where the loop has a ^ b
XorAsOr(a, b) ==
  OrPair[(a % 4) + 1][(b % 4) + 1]
    + 4 * OrPair[((a \div 4) % 4) + 1][((b \div 4) % 4) + 1]
    + 16 * OrPair[((a \div 16) % 4) + 1][((b \div 16) % 4) + 1]
    + 64 * OrPair[((a \div 64) % 4) + 1][((b \div 64) % 4) + 1]

Xor(a, b) ==
  XorPair[(a % 4) + 1][(b % 4) + 1]
    + 4 * XorPair[((a \div 4) % 4) + 1][((b \div 4) % 4) + 1]
    + 16 * XorPair[((a \div 16) % 4) + 1][((b \div 16) % 4) + 1]
    + 64 * XorPair[((a \div 64) % 4) + 1][((b \div 64) % 4) + 1]

\* x & 0x80 as a boolean, for a byte x
HighBit(x) == (x % 256) >= 128

(***************************************************************************)
(* Numbers wider than the 32-bit integers of TLC.  A wide number           *)
(* [q, r] stands for q * 65536 + r with 0 <= r < 65536; q may be negative. *)
(* JavaScript numbers hold every value built here exactly.                 *)
(***************************************************************************)
Wide(n) == [q |-> n \div 65536, r |-> n % 65536]

WideAdd(a, b) ==
  [q |-> a.q + b.q + ((a.r + b.r) \div 65536), r |-> (a.r + b.r) % 65536]

WideIsPositive(a) == a.q > 0 \/ (a.q = 0 /\ a.r > 0)

\* a > 2^30
WideAboveGiB(a) == a.q > 16384 \/ (a.q = 16384 /\ a.r > 0)

\* the value of a wide number of at most 2^30
WideValue(a) == a.q * 65536 + a.r

\* Buffer.readUInt16BE on exactly 2 bytes
ReadUInt16BE(b) == b[1] * 256 + b[2]

\* Buffer.readUInt32BE on exactly 4 bytes, as a wide number
ReadUInt32BE(b) == [q |-> b[1] * 256 + b[2], r |-> b[3] * 256 + b[4]]

\* ToInt32 of JavaScript, which << applies to its left operand
ToInt32(a) ==
  LET h == a.q % 65536
  IN  [q |-> IF h >= 32768 THEN h - 65536 ELSE h, r |-> a.r]

\* x << 32 of JavaScript: the shift count is taken modulo 32, which leaves
\* ToInt32(x) shifted by 0 bits
ShiftLeft32(a) == ToInt32(a)

\* Buffer.writeUInt16BE / writeUInt32BE
WriteUInt16BE(v) == <<(v \div 256) % 256, v % 256>>
WriteUInt32BE(v) ==
  <<(v \div 16777216) % 256, (v \div 65536) % 256, (v \div 256) % 256, v % 256>>

\* Buffer.writeUInt32BE of a wide number: ERR_OUT_OF_RANGE (thrown) for a
\* value outside 0 .. 2^32 - 1
WriteUInt32BEWide(v) ==
  IF v.q < 0 \/ v.q >= 65536
  THEN [thrown |-> TRUE, bytes |-> <<>>]
  ELSE [thrown |-> FALSE,
        bytes |-> <<v.q \div 256, v.q % 256, v.r \div 256, v.r % 256>>]

\* Buffer.from([...]) of numbers: each entry is stored modulo 256
ByteArray(s) == [i \in 1..Len(s) |-> s[i] % 256]

RECURSIVE Flatten(_)
Flatten(ss) == IF ss = <<>> THEN <<>> ELSE Head(ss) \o Flatten(Tail(ss))

(***************************************************************************)
(* Strings.  A JavaScript string is modelled as its sequence of code       *)
(* points; Buffer.toString("utf8") decodes bytes (an ill-formed sequence   *)
(* becomes U+FFFD) and Buffer.from(string) encodes code points as UTF-8.   *)
(***************************************************************************)
REPLACEMENT == 65533

RECURSIVE Utf8Dec(_, _, _, _, _, _, _)
Utf8Dec(bs, i, cp, needed, seen, lo, hi) ==
  IF i > Len(bs) THEN (IF needed # 0 THEN <<REPLACEMENT>> ELSE <<>>)
  ELSE
    LET b == bs[i]
    IN  IF needed = 0
        THEN IF b <= 127 THEN <<b>> \o Utf8Dec(bs, i + 1, 0, 0, 0, 128, 191)
             ELSE IF b >= 194 /\ b <= 223
                  THEN Utf8Dec(bs, i + 1, b % 32, 1, 0, 128, 191)
             ELSE IF b >= 224 /\ b <= 239
                  THEN Utf8Dec(bs, i + 1, b % 16, 2, 0,
                               IF b = 224 THEN 160 ELSE 128,
                               IF b = 237 THEN 159 ELSE 191)
             ELSE IF b >= 240 /\ b <= 244
                  THEN Utf8Dec(bs, i + 1, b % 8, 3, 0,
                               IF b = 240 THEN 144 ELSE 128,
                               IF b = 244 THEN 143 ELSE 191)
             ELSE <<REPLACEMENT>> \o Utf8Dec(bs, i + 1, 0, 0, 0, 128, 191)
        ELSE IF b < lo \/ b > hi
             THEN <<REPLACEMENT>> \o Utf8Dec(bs, i, 0, 0, 0, 128, 191)
             ELSE IF seen + 1 = needed
                  THEN <<cp * 64 + (b % 64)>> \o Utf8Dec(bs, i + 1, 0, 0, 0, 128, 191)
                  ELSE Utf8Dec(bs, i + 1, cp * 64 + (b % 64), needed, seen + 1, 128, 191)

\* decoded.toString("utf8") (ASCII bytes decode to their own code points)
ToStringUtf8(bs) ==
  IF \A i \in 1..Len(bs) : bs[i] < 128 THEN bs
  ELSE Utf8Dec(bs, 1, 0, 0, 0, 128, 191)

Utf8EncodeChar(c) ==
  IF c < 128 THEN <<c>>
  ELSE IF c < 2048 THEN <<192 + (c \div 64), 128 + (c % 64)>>
  ELSE IF c < 65536
       THEN <<224 + (c \div 4096), 128 + ((c \div 64) % 64), 128 + (c % 64)>>
  ELSE <<240 + (c \div 262144), 128 + ((c \div 4096) % 64),
         128 + ((c \div 64) % 64), 128 + (c % 64)>>

RECURSIVE Utf8Enc(_, _)
Utf8Enc(str, i) ==
  IF i > Len(str) THEN <<>> ELSE Utf8EncodeChar(str[i]) \o Utf8Enc(str, i + 1)

\* Buffer.from(message) for a string message (an ASCII string encodes to
\* its own code points)
BufferFromString(str) ==
  IF \A i \in 1..Len(str) : str[i] < 128 THEN str ELSE Utf8Enc(str, 1)

\* the template literal `Echo: ${receivedMessage}`
EchoPrefix == <<69, 99, 104, 111, 58, 32>>
EchoOf(receivedMessage) == EchoPrefix \o receivedMessage

(***************************************************************************)
(* crypto.createHash("sha1") (lines 329-331): SHA-1 of FIPS 180-4 over a   *)
(* sequence of bytes.  A 32-bit word is a wide number [q, r] with both     *)
(* halves in 0..65535.                                                     *)
(***************************************************************************)
\* a bitwise operation on two 16-bit halves, two bits at a time
Bitwise16(t, a, b) ==
  t[(a % 4) + 1][(b % 4) + 1]
    + 4 * t[((a \div 4) % 4) + 1][((b \div 4) % 4) + 1]
    + 16 * t[((a \div 16) % 4) + 1][((b \div 16) % 4) + 1]
    + 64 * t[((a \div 64) % 4) + 1][((b \div 64) % 4) + 1]
    + 256 * t[((a \div 256) % 4) + 1][((b \div 256) % 4) + 1]
    + 1024 * t[((a \div 1024) % 4) + 1][((b \div 1024) % 4) + 1]
    + 4096 * t[((a \div 4096) % 4) + 1][((b \div 4096) % 4) + 1]
    + 16384 * t[((a \div 16384) % 4) + 1][((b \div 16384) % 4) + 1]

WordXor(a, b) == [q |-> Bitwise16(XorPair, a.q, b.q), r |-> Bitwise16(XorPair, a.r, b.r)]
WordAnd(a, b) == [q |-> Bitwise16(AndPair, a.q, b.q), r |-> Bitwise16(AndPair, a.r, b.r)]
WordOr(a, b) == [q |-> Bitwise16(OrPair, a.q, b.q), r |-> Bitwise16(OrPair, a.r, b.r)]
WordNot(a) == [q |-> 65535 - a.q, r |-> 65535 - a.r]

\* addition modulo 2^32
WordAdd(a, b) ==
  LET s == WideAdd(a, b)
  IN  [q |-> s.q % 65536, r |-> s.r]

\* rotation to the left by p bits, 0 < p < 16, with two == 2^p and
\* down == 2^(16 - p)
RotlSmall(a, two, down) ==
  [q |-> ((a.q * two) % 65536) + (a.r \div down),
   r |-> ((a.r * two) % 65536) + (a.q \div down)]

Rotl1(a) == RotlSmall(a, 2, 32768)
Rotl5(a) == RotlSmall(a, 32, 2048)
\* by 30 bits: by 16 (the halves change places), then by 14
Rotl30(a) == RotlSmall([q |-> a.r, r |-> a.q], 16384, 4)

\* the message followed by the bit 1, zeros up to 56 modulo 64 and the
\* length in bits as 8 big-endian bytes (messages here are far below 8 KiB)
Sha1Pad(msg) ==
  LET n == Len(msg)
      zeros == (119 - (n % 64)) % 64
  IN  msg \o <<128>> \o [i \in 1..zeros |-> 0]
          \o <<0, 0, 0, 0, 0, 0>> \o WriteUInt16BE(n * 8)

\* the 16 words of block number k (from 0) of the padded message
Sha1BlockWords(padded, k) ==
  [t \in 1..16 |->
     LET o == 64 * k + 4 * (t - 1)
     IN  [q |-> padded[o + 1] * 256 + padded[o + 2],
          r |-> padded[o + 3] * 256 + padded[o + 4]]]

\* the message schedule: w grows from 16 to 80 words
RECURSIVE Sha1Schedule(_)
Sha1Schedule(w) ==
  IF Len(w) >= 80 THEN w
  ELSE LET t == Len(w) + 1
       IN  Sha1Schedule(Append(w,
             Rotl1(WordXor(WordXor(w[t - 3], w[t - 8]),
                           WordXor(w[t - 14], w[t - 16])))))

\* the round function and constant of round t (from 1)
Sha1F(t, b, c, d) ==
  IF t <= 20 THEN WordOr(WordAnd(b, c), WordAnd(WordNot(b), d))
  ELSE IF t <= 40 THEN WordXor(WordXor(b, c), d)
  ELSE IF t <= 60
       THEN WordOr(WordOr(WordAnd(b, c), WordAnd(b, d)), WordAnd(c, d))
  ELSE WordXor(WordXor(b, c), d)

Sha1K(t) ==
  IF t <= 20 THEN [q |-> 23170, r |-> 31129]
  ELSE IF t <= 40 THEN [q |-> 28377, r |-> 60321]
  ELSE IF t <= 60 THEN [q |-> 36635, r |-> 48348]
  ELSE [q |-> 51810, r |-> 49622]

\* rounds t..80 on the working variables st = <<a, b, c, d, e>>
RECURSIVE Sha1Rounds(_, _, _)
Sha1Rounds(st, w, t) ==
  \* (Len(st) is asked for first so that each round's result is computed
  \* before the next round starts)
  IF Len(st) # 5 \/ t > 80 THEN st
  ELSE LET temp == WordAdd(WordAdd(WordAdd(Rotl5(st[1]), Sha1F(t, st[2], st[3], st[4])),
                                   WordAdd(st[5], Sha1K(t))),
                           w[t])
       IN  Sha1Rounds(<<temp, st[1], Rotl30(st[2]), st[3], st[4]>>, w, t + 1)

Sha1Initial ==
  <<[q |-> 26437, r |-> 8961], [q |-> 61389, r |-> 43913],
    [q |-> 39098, r |-> 56574], [q |-> 4146, r |-> 21622],
    [q |-> 50130, r |-> 57840]>>

\* blocks k, k + 1, ... of the padded message folded into the hash value h
RECURSIVE Sha1Blocks(_, _, _)
Sha1Blocks(padded, k, h) ==
  IF Len(h) # 5 \/ 64 * k >= Len(padded) THEN h
  ELSE LET st == Sha1Rounds(h, Sha1Schedule(Sha1BlockWords(padded, k)), 1)
       IN  Sha1Blocks(padded, k + 1, [i \in 1..5 |-> WordAdd(h[i], st[i])])

\* hash.update(msg); hash.digest(): the 20 bytes of the hash value
Sha1(msg) ==
  LET h == Sha1Blocks(Sha1Pad(msg), 0, Sha1Initial)
  IN  Flatten([i \in 1..5 |-> WriteUInt16BE(h[i].q) \o WriteUInt16BE(h[i].r)])

(***************************************************************************)
(* digest("base64") (line 331): the base64 text of a sequence of bytes, as *)
(* character codes, padded with "=" to a multiple of 4 characters.         *)
(***************************************************************************)
\* "ABCDEFGHIJKLMNOPQRSTUVWXYZabcdefghijklmnopqrstuvwxyz0123456789+/"
Base64Alphabet ==
  <<65, 66, 67, 68, 69, 70, 71, 72, 73, 74, 75, 76, 77, 78, 79, 80, 81, 82, 83,
    84, 85, 86, 87, 88, 89, 90, 97, 98, 99, 100, 101, 102, 103, 104, 105, 106,
    107, 108, 109, 110, 111, 112, 113, 114, 115, 116, 117, 118, 119, 120, 121,
    122, 48, 49, 50, 51, 52, 53, 54, 55, 56, 57, 43, 47>>

\* "="
Base64Pad == 61

RECURSIVE Base64Encode(_)
Base64Encode(bytes) ==
  LET n == Len(bytes)
      b1 == bytes[1]
      b2 == IF n >= 2 THEN bytes[2] ELSE 0
      b3 == IF n >= 3 THEN bytes[3] ELSE 0
      c1 == Base64Alphabet[(b1 \div 4) + 1]
      c2 == Base64Alphabet[((b1 % 4) * 16 + (b2 \div 16)) + 1]
      c3 == Base64Alphabet[((b2 % 16) * 4 + (b3 \div 64)) + 1]
      c4 == Base64Alphabet[(b3 % 64) + 1]
  IN  IF n = 0 THEN <<>>
      ELSE IF n = 1 THEN <<c1, c2, Base64Pad, Base64Pad>>
      ELSE IF n = 2 THEN <<c1, c2, c3, Base64Pad>>
      ELSE <<c1, c2, c3, c4>> \o Base64Encode(SubSeq(bytes, 4, n))

(***************************************************************************)
(* The handshake, lines 95-101 and 303-332.  Text is a sequence of         *)
(* character codes.  request.headers["sec-websocket-key"] is a string, or  *)
(* undefined when the request carries no such header.                      *)
(***************************************************************************)
\* the GUID in lower case: "258eafa5-e914-47da-95ca-c5ab0dc85b11"
MagicStringLowerCase ==
  <<50, 53, 56, 101, 97, 102, 97, 53, 45, 101, 57, 49, 52, 45, 52, 55, 100, 97,
    45, 57, 53, 99, 97, 45, 99, 53, 97, 98, 48, 100, 99, 56, 53, 98, 49, 49>>

\* "258EAFA5-E914-47DA-95CA-C5AB0DC85B11"
WEB_SOCKET_MAGIC_STRING ==
  <<50, 53, 56, 69, 65, 70, 65, 53, 45, 69, 57, 49, 52, 45, 52, 55, 68, 65, 45,
    57, 53, 67, 65, 45, 67, 53, 65, 66, 48, 68, 67, 56, 53, 66, 49, 49>>

HeaderValue(str) == [present |-> TRUE, value |-> str]
Undefined == [present |-> FALSE, value |-> <<>>]

\* the string a value becomes under + and in a template literal: undefined
\* becomes "undefined"
ToStringJs(v) ==
  IF v.present THEN v.value ELSE <<117, 110, 100, 101, 102, 105, 110, 101, 100>>

\* lines 328-332
CreateSocketAccept(clientKey) ==
  Base64Encode(Sha1(BufferFromString(ToStringJs(clientKey) \o WEB_SOCKET_MAGIC_STRING)))

\* "\r\n"
CRLF == <<13, 10>>

\* Array.prototype.join
RECURSIVE Join(_, _)
Join(parts, sep) ==
  IF parts = <<>> THEN <<>>
  ELSE IF Len(parts) = 1 THEN parts[1]
  ELSE parts[1] \o sep \o Join(Tail(parts), sep)

\* "HTTP/1.1 101 Switching Protocols"
StatusLine ==
  <<72, 84, 84, 80, 47, 49, 46, 49, 32, 49, 48, 49, 32, 83, 119, 105, 116, 99,
    104, 105, 110, 103, 32, 80, 114, 111, 116, 111, 99, 111, 108, 115>>

\* "Upgrade: websocket"
UpgradeLine ==
  <<85, 112, 103, 114, 97, 100, 101, 58, 32, 119, 101, 98, 115, 111, 99, 107,
    101, 116>>

\* "Connection: Upgrade"
ConnectionLine ==
  <<67, 111, 110, 110, 101, 99, 116, 105, 111, 110, 58, 32, 85, 112, 103, 114,
    97, 100, 101>>

\* "Sec-WebSocket-Accept: "
AcceptName ==
  <<83, 101, 99, 45, 87, 101, 98, 83, 111, 99, 107, 101, 116, 45, 65, 99, 99,
    101, 112, 116, 58, 32>>

\* prepareHandshakeHeader with an empty last element where line 310 has
\* "\r\n": the response then ends after one CRLF
PrepareHandshakeHeaderNoBlankLine(clientKey) ==
  LET acceptKey == CreateSocketAccept(clientKey)
  IN  Join(<<StatusLine, UpgradeLine, ConnectionLine, AcceptName \o acceptKey,
             <<>>>>, CRLF)

\* lines 303-313
PrepareHandshakeHeader(clientKey) ==
  LET acceptKey == CreateSocketAccept(clientKey)
  IN  Join(<<StatusLine, UpgradeLine, ConnectionLine, AcceptName \o acceptKey,
             CRLF>>, CRLF)

\* the keys of the upgrade requests: README.md line 66, a second key of 16
\* random bytes, no header at all, an empty header, text that is not base64
\* and base64 of 8 bytes
SampleKey ==
  HeaderValue(<<100, 71, 104, 108, 73, 72, 78, 104, 98, 88, 66, 115, 90, 83, 66,
                117, 98, 50, 53, 106, 90, 81, 61, 61>>)

OtherKey ==
  HeaderValue(<<120, 51, 74, 74, 72, 77, 98, 68, 76, 49, 69, 122, 76, 107, 104,
                57, 71, 66, 104, 88, 68, 119, 61, 61>>)

EmptyKey == HeaderValue(<<>>)

\* "not base64!"
MalformedKey ==
  HeaderValue(<<110, 111, 116, 32, 98, 97, 115, 101, 54, 52, 33>>)

\* "AQIDBAUGBwg=", base64 of the 8 bytes 1..8
ShortKey ==
  HeaderValue(<<65, 81, 73, 68, 66, 65, 85, 71, 66, 119, 103, 61>>)

UpgradeKeys == {SampleKey, OtherKey, Undefined, EmptyKey, MalformedKey, ShortKey}

(***************************************************************************)
(* socket.read(n) of a paused net.Socket whose buffer holds buf.  It       *)
(* returns null (ok = FALSE) for n <= 0 and when fewer than n bytes are    *)
(* buffered, unless the peer has ended the stream, when it returns what is *)
(* left.  A size above 1 GiB raises ERR_OUT_OF_RANGE (thrown = TRUE, see   *)
(* SocketReadWide).                                                        *)
(***************************************************************************)
HowMuchToRead(n, len, ended) ==
  IF n <= 0 \/ (len = 0 /\ ended) THEN 0
  ELSE IF n <= len THEN n
  ELSE IF ended THEN len ELSE 0

SocketRead(buf, n, ended) ==
  LET m == HowMuchToRead(n, Len(buf), ended)
  IN  IF m > 0
      THEN [ok |-> TRUE, thrown |-> FALSE, data |-> SubSeq(buf, 1, m),
            rest |-> SubSeq(buf, m + 1, Len(buf))]
      ELSE [ok |-> FALSE, thrown |-> FALSE, data |-> <<>>, rest |-> buf]


\* socket.read(n) for a wide n
SocketReadWide(buf, n, ended) ==
  IF WideAboveGiB(n)
  THEN [ok |-> FALSE, thrown |-> TRUE, data |-> <<>>, rest |-> buf]
  ELSE IF ~WideIsPositive(n)
  THEN [ok |-> FALSE, thrown |-> FALSE, data |-> <<>>, rest |-> buf]
  ELSE SocketRead(buf, WideValue(n), ended)

(***************************************************************************)
(* onSocketreadable, lines 144-195: the parse of one frame out of the      *)
(* socket's buffer.  outcome is "nodata" (line 147), "throw" (a read       *)
(* returned null, or too few bytes, where a buffer is used: TypeError or   *)
(* RangeError, caught by the uncaughtException handler), "nopayload"       *)
(* (lines 180-183) or "frame".  rest is what the reads left in the buffer. *)
(***************************************************************************)
NoFrame(outcome, rest) ==
  [outcome |-> outcome, rest |-> rest, fin |-> FALSE, opcode |-> 0,
   masked |-> FALSE, messageLength |-> Wide(0), decoded |-> <<>>]

\* lines 158-172: [thrown, len, rest], len a wide number
ReadMessageLength(lengthIndicatorInBits, buf, ended) ==
  IF lengthIndicatorInBits <= SEVEN_BIT_INTIGER_MARKER
  THEN [thrown |-> FALSE, len |-> Wide(lengthIndicatorInBits), rest |-> buf]
  ELSE IF lengthIndicatorInBits = SIXTEEN_BIT_INTIGER_MARKER
  THEN LET r == SocketRead(buf, 2, ended)
       IN  IF ~r.ok \/ Len(r.data) < 2
           THEN [thrown |-> TRUE, len |-> Wide(0), rest |-> r.rest]
           ELSE [thrown |-> FALSE, len |-> Wide(ReadUInt16BE(r.data)), rest |-> r.rest]
  ELSE IF lengthIndicatorInBits = SIXTYFOUR_BIT_INTIGER_MARKER
  THEN LET ru == SocketRead(buf, 4, ended)
       IN  IF ~ru.ok \/ Len(ru.data) < 4
           THEN [thrown |-> TRUE, len |-> Wide(0), rest |-> ru.rest]
           ELSE LET rl == SocketRead(ru.rest, 4, ended)
                IN  IF ~rl.ok \/ Len(rl.data) < 4
                    THEN [thrown |-> TRUE, len |-> Wide(0), rest |-> rl.rest]
                    ELSE [thrown |-> FALSE,
                          len |-> WideAdd(ShiftLeft32(ReadUInt32BE(ru.data)),
                                          ReadUInt32BE(rl.data)),
                          rest |-> rl.rest]
  ELSE [thrown |-> FALSE, len |-> Wide(0), rest |-> buf]

\* the unmasking loop with the key index taken as i % 3
UnmaskKeyModThree(encoded, maskKey) ==
  [i \in 1..Len(encoded) |->
     LET j == ((i - 1) % 3) + 1
     IN  IF j <= Len(maskKey) THEN Xor(encoded[i], maskKey[j]) ELSE encoded[i]]

\* lines 187-190: decoded[i] = encoded[i] ^ maskKey[i % 4]; an index past a
\* short key reads undefined, which ^ treats as 0
Unmask(encoded, maskKey) ==
  [i \in 1..Len(encoded) |->
     LET j == ((i - 1) % 4) + 1
     IN  IF j <= Len(maskKey) THEN Xor(encoded[i], maskKey[j]) ELSE encoded[i]]

ParseFrame(buf, ended) ==
  LET r1 == SocketRead(buf, 1, ended)
  IN  IF ~r1.ok THEN NoFrame("nodata", r1.rest)
      ELSE
      LET firstByte == r1.data[1]
          isFinalFrame == HighBit(firstByte)
          opcode == firstByte % 16
          r2 == SocketRead(r1.rest, 1, ended)
      IN  IF ~r2.ok THEN NoFrame("throw", r2.rest)
          ELSE
          LET secondByte == r2.data[1]
              isMasked == HighBit(secondByte)
              lengthIndicatorInBits == secondByte - FIRST_BIT
              ml == ReadMessageLength(lengthIndicatorInBits, r2.rest, ended)
          IN  IF ml.thrown THEN NoFrame("throw", ml.rest)
              ELSE
              LET rk == SocketRead(ml.rest, 4, ended)
                  re == SocketReadWide(rk.rest, ml.len, ended)
              IN  IF re.thrown THEN NoFrame("throw", re.rest)
                  ELSE IF ~re.ok
                  THEN [NoFrame("nopayload", re.rest) EXCEPT
                          !.fin = isFinalFrame, !.opcode = opcode,
                          !.masked = isMasked, !.messageLength = ml.len]
                  ELSE IF ~rk.ok THEN NoFrame("throw", re.rest)
                  ELSE [outcome |-> "frame", rest |-> re.rest,
                        fin |-> isFinalFrame, opcode |-> opcode,
                        masked |-> isMasked, messageLength |-> ml.len,
                        decoded |-> Unmask(re.data, rk.data)]

(***************************************************************************)
(* The socket's writable side: [writes, ended, destroyed, writeAfterEnd].  *)
(* writes is the sequence of chunks accepted by socket.write, each tagged  *)
(* with the part of the frame it carries.  A write after socket.end() is   *)
(* refused with ERR_STREAM_WRITE_AFTER_END and destroys the stream.        *)
(* flushed counts the chunks the transport has taken, pending the bytes    *)
(* of the chunks it has not.                                               *)
(***************************************************************************)
\* writableHighWaterMark of a net.Socket, in bytes: socket.write returns
\* false once this much is queued
HighWaterMark == 16384

\* a socket.write that drops the chunk once the queue has reached the mark
SocketWriteDropsWhenFull(sock, part, bytes) ==
  IF sock.ended \/ sock.destroyed
  THEN [sock EXCEPT !.destroyed = TRUE, !.writeAfterEnd = TRUE]
  ELSE IF sock.pending >= HighWaterMark THEN sock
  ELSE [sock EXCEPT !.writes = Append(@, [part |-> part, bytes |-> bytes]),
                    !.pending = @ + Len(bytes)]

\* socket.write queues the chunk whatever it returns; the callers at lines
\* 269-270 and 287-288 ignore the value returned
SocketWrite(sock, part, bytes) ==
  IF sock.ended \/ sock.destroyed
  THEN [sock EXCEPT !.destroyed = TRUE, !.writeAfterEnd = TRUE]
  ELSE [sock EXCEPT !.writes = Append(@, [part |-> part, bytes |-> bytes]),
                    !.pending = @ + Len(bytes)]

SocketEnd(sock) == [sock EXCEPT !.ended = TRUE]

\* sendMessage's header with < where line 230 has <=
SendMessageHeaderBelowMarker(dataLength, opcode) ==
  LET payloadLength ==
        IF dataLength < SEVEN_BIT_INTIGER_MARKER THEN dataLength
        ELSE IF dataLength <= 65535 THEN SIXTEEN_BIT_INTIGER_MARKER
        ELSE SIXTYFOUR_BIT_INTIGER_MARKER
      extendedPayloadLength ==
        IF dataLength < SEVEN_BIT_INTIGER_MARKER THEN <<>>
        ELSE IF dataLength <= 65535 THEN WriteUInt16BE(dataLength)
        ELSE WriteUInt32BE(0) \o WriteUInt32BE(dataLength)
      firstByte == 128 + opcode
      secondByte == payloadLength
  IN  ByteArray(<<firstByte, secondByte>>) \o extendedPayloadLength

\* lines 225-267: the header sendMessage builds for dataLength payload bytes
SendMessageHeader(dataLength, opcode) ==
  LET payloadLength ==
        IF dataLength <= SEVEN_BIT_INTIGER_MARKER THEN dataLength
        ELSE IF dataLength <= 65535 THEN SIXTEEN_BIT_INTIGER_MARKER
        ELSE SIXTYFOUR_BIT_INTIGER_MARKER
      extendedPayloadLength ==
        IF dataLength <= SEVEN_BIT_INTIGER_MARKER THEN <<>>
        ELSE IF dataLength <= 65535 THEN WriteUInt16BE(dataLength)
        ELSE WriteUInt32BE(0) \o WriteUInt32BE(dataLength)
      firstByte == 128 + opcode
      secondByte == payloadLength
  IN  ByteArray(<<firstByte, secondByte>>) \o extendedPayloadLength

\* lines 221-274
SendMessage(message, sock, opcode) ==
  LET dataBuffer == BufferFromString(message)
      header == SendMessageHeader(Len(dataBuffer), opcode)
  IN  SocketWrite(SocketWrite(sock, "header", header), "payload", dataBuffer)

\* lines 282-289
SendPongHeader(data) == ByteArray(<<128 + OPCODE_PONG, Len(data)>>)

\* sendPong without the write of line 288
SendPongHeaderOnly(data, sock) ==
  SocketWrite(sock, "header", SendPongHeader(data))

SendPong(data, sock) ==
  SocketWrite(SocketWrite(sock, "header", SendPongHeader(data)), "payload", data)

\* the dispatch with a branch that answers a Pong as it answers a Ping
DispatchPongAnswered(frame, sock) ==
  IF frame.opcode = OPCODE_TEXT
  THEN SendMessage(EchoOf(ToStringUtf8(frame.decoded)), sock, OPCODE_TEXT)
  ELSE IF frame.opcode = OPCODE_CLOSE THEN SocketEnd(sock)
  ELSE IF frame.opcode \in {OPCODE_PING, OPCODE_PONG}
  THEN SendPong(frame.decoded, sock)
  ELSE sock

\* lines 197-208: the opcode dispatch on a parsed frame
Dispatch(frame, sock) ==
  IF frame.opcode = OPCODE_TEXT
  THEN SendMessage(EchoOf(ToStringUtf8(frame.decoded)), sock, OPCODE_TEXT)
  ELSE IF frame.opcode = OPCODE_CLOSE THEN SocketEnd(sock)
  ELSE IF frame.opcode = OPCODE_PING THEN SendPong(frame.decoded, sock)
  ELSE sock

\* onSocketreadable as a whole: the socket after one readable event
OnSocketReadable(parsed, sock) ==
  IF parsed.outcome = "frame" THEN Dispatch(parsed, sock) ELSE sock


(***************************************************************************)
(* The client: a frame is [fin, rsv, opcode, masked, key, payload] and is  *)
(* put on the wire in the layout drawn at lines 121-140.                   *)
(***************************************************************************)
MaskKeyA == <<55, 250, 33, 61>>

Frame(fin, rsv, opcode, masked, payload) ==
  [fin |-> fin, rsv |-> rsv, opcode |-> opcode, masked |-> masked,
   key |-> MaskKeyA, payload |-> payload]

Repeat(b, n) == [i \in 1..n |-> b]

ClientLength(n, maskBit) ==
  IF n <= 125 THEN <<maskBit + n>>
  ELSE IF n <= 65535 THEN <<maskBit + 126>> \o WriteUInt16BE(n)
  ELSE <<maskBit + 127>> \o WriteUInt32BE(0) \o WriteUInt32BE(n)

ClientEncode(f) ==
  <<(IF f.fin THEN 128 ELSE 0) + 16 * f.rsv + f.opcode>>
    \o ClientLength(Len(f.payload), IF f.masked THEN 128 ELSE 0)
    \o (IF f.masked THEN f.key ELSE <<>>)
    \o (IF f.masked THEN Unmask(f.payload, f.key) ELSE f.payload)

TextFrames ==
  {Frame(TRUE, 0, OPCODE_TEXT, TRUE, p) : p \in {<<>>, <<97>>, <<255>>}}

PingFrames ==
  {Frame(TRUE, 0, OPCODE_PING, TRUE, p) : p \in {<<>>, <<97, 98, 99>>, Repeat(97, 128)}}

CloseFrames ==
  {Frame(TRUE, 0, OPCODE_CLOSE, TRUE, p) : p \in {<<>>, <<3, 232>>}}

ReservedFrames == {Frame(TRUE, 0, 3, TRUE, <<97>>)}

UnmaskedFrames == {Frame(TRUE, 0, OPCODE_TEXT, FALSE, <<97>>)}

ClientFrames ==
  TextFrames \cup PingFrames \cup CloseFrames \cup ReservedFrames \cup UnmaskedFrames

\* the bytes of each frame the client may send
WireBytes == {<<f, ClientEncode(f)>> : f \in ClientFrames}

(***************************************************************************)
(* State.                                                                  *)
(***************************************************************************)
VARIABLES
  sent,    \* the frames the client has sent, in order
  wire,    \* bytes sent and not yet in the socket's read buffer
  rbuf,    \* the socket's read buffer
  rEnded,  \* the peer has ended the stream and the socket has seen it
  sock,    \* the socket's writable side
  last,    \* what the latest run of onSocketreadable did
  partial, \* readable events so far that carried a part of the pending bytes
  handshake, \* what onSocketUpgrade did: the key it was given, the response
             \* it wrote, whether it attached the 'readable' listener, and
             \* the head bytes the request came with
  shutdown, \* what the SIGINT handler did: whether server.close was called,
            \* whether its callback has exited the process, and whether the
            \* connection was open when the signal arrived
  encoded, \* the latest 64-bit length field sendMessage was asked to build:
           \* the length, whether a write threw, and the 8 bytes
  peer \* a second connection of the same server: its handshake, read
       \* buffer and socket, and what its latest 'readable' event did

vars ==
  <<sent, wire, rbuf, rEnded, sock, last, partial, handshake, shutdown, encoded,
    peer>>

NoRun ==
  [outcome |-> "none", fin |-> FALSE, opcode |-> 0, masked |-> FALSE,
   messageLength |-> Wide(0), decoded |-> <<>>, before |-> <<>>, wasEnded |-> FALSE,
   writesBefore |-> 0]

InitSock ==
  [writes |-> <<>>, ended |-> FALSE, destroyed |-> FALSE, writeAfterEnd |-> FALSE,
   flushed |-> 0, pending |-> 0]

NoHandshake ==
  [key |-> Undefined, written |-> <<>>, listening |-> FALSE, head |-> <<>>]

\* no SIGINT so far: the server listens and the process runs
NoShutdown == [closing |-> FALSE, exited |-> FALSE, open |-> FALSE]

\* a second socket accepted by the server, before its 'upgrade' event.
\* frames counts its readable events, seen and upgradeSaw hold what the
\* first connection's latest run had done when this one's handler last ran
\* and when it was upgraded
NoPeer ==
  [listening |-> FALSE, written |-> <<>>, rbuf |-> <<>>, sock |-> InitSock,
   outcome |-> "none", frames |-> 0, seen |-> "none", upgradeSaw |-> "none"]

\* sendMessage has built no 64-bit length field so far
NoEncode == [dataLength |-> Wide(0), thrown |-> FALSE, bytes |-> <<>>]

\* a socket accepted by the server (lines 64-79), before its 'upgrade' event
Init ==
  /\ sent = <<>>
  /\ wire = <<>>
  /\ rbuf = <<>>
  /\ rEnded = FALSE
  /\ sock = InitSock
  /\ last = NoRun
  /\ partial = 0
  /\ handshake = NoHandshake
  /\ shutdown = NoShutdown
  /\ encoded = NoEncode
  /\ peer = NoPeer

\* an upgrade handler that attaches the 'readable' listener and writes no
\* response
OnSocketUpgradeListenerOnly(webSocketKey) ==
  /\ handshake = NoHandshake
  /\ handshake' = [key |-> webSocketKey, written |-> <<>>, listening |-> TRUE,
                   head |-> <<>>]
  /\ UNCHANGED <<sent, wire, rbuf, rEnded, sock, last, partial, shutdown, encoded, peer>>

\* the 'upgrade' event (line 79) for a request whose sec-websocket-key header
\* is webSocketKey: lines 95-116, the response written at line 100 and the
\* listener attached at line 105
OnSocketUpgrade(webSocketKey) ==
  /\ handshake = NoHandshake
  /\ handshake' = [key |-> webSocketKey,
                   written |-> PrepareHandshakeHeader(webSocketKey),
                   listening |-> TRUE, head |-> <<>>]
  /\ UNCHANGED <<sent, wire, rbuf, rEnded, sock, last, partial, shutdown, encoded, peer>>

\* the 'upgrade' event for a request that came with the bytes of the frame
\* fb[1] behind it in the same chunk: the server hands them to the listener
\* as head, and lines 95-116 never use head
OnSocketUpgradeHead(webSocketKey, fb) ==
  /\ handshake = NoHandshake
  /\ sent = <<>>
  /\ sent' = <<fb[1]>>
  /\ handshake' = [key |-> webSocketKey,
                   written |-> PrepareHandshakeHeader(webSocketKey),
                   listening |-> TRUE, head |-> fb[2]]
  /\ UNCHANGED <<wire, rbuf, rEnded, sock, last, partial, shutdown, encoded, peer>>

\* a handler that also answers on the other connection's socket
ReadableOnBroadcast(parsed, own, other) ==
  [own |-> OnSocketReadable(parsed, own), other |-> OnSocketReadable(parsed, other)]

\* line 105: socket.on("readable", () => onSocketreadable(socket)); the
\* handler works on the socket of its own connection and on nothing else
ReadableOn(parsed, own, other) ==
  [own |-> OnSocketReadable(parsed, own), other |-> other]

\* an uncaughtException handler that ends the process
UncaughtExceptionExits(process) == [process EXCEPT !.exited = TRUE]

\* lines 340-344: the uncaughtException handler logs and returns, which
\* leaves the process running
UncaughtException(process) == process

\* one 'readable' event (line 105) on a buffer holding buf
RunHandler(buf, ended) ==
  LET parsed == ParseFrame(buf, ended)
      after == ReadableOn(parsed, sock, peer.sock)
  IN  /\ rbuf' = parsed.rest
      /\ sock' = after.own
      /\ peer' = [peer EXCEPT !.sock = after.other]
      /\ shutdown' = IF parsed.outcome = "throw"
                     THEN UncaughtException(shutdown) ELSE shutdown
      /\ last' = [outcome |-> parsed.outcome, fin |-> parsed.fin,
                  opcode |-> parsed.opcode, masked |-> parsed.masked,
                  messageLength |-> parsed.messageLength,
                  decoded |-> parsed.decoded, before |-> buf,
                  wasEnded |-> sock.ended, writesBefore |-> Len(sock.writes)]

\* ws.send / a raw client writing one frame
ClientSend(fb) ==
  /\ handshake.written # <<>>
  /\ Len(sent) < MaxFrames
  /\ ~rEnded
  /\ sent' = Append(sent, fb[1])
  /\ wire' = wire \o fb[2]
  /\ UNCHANGED <<rbuf, rEnded, sock, last, partial, handshake, shutdown, encoded, peer>>

\* the sizes of the next chunk: all the pending bytes, or a short prefix
Cuts ==
  IF wire = <<>> THEN {}
  ELSE {Len(wire)} \cup
         (IF partial < MaxPartial THEN 1..Min(MaxCut, Len(wire) - 1) ELSE {})

\* the transport delivers the next k bytes and the socket emits 'readable'
Readable(k) ==
  /\ handshake.listening
  /\ ~sock.destroyed
  /\ ~rEnded
  /\ k \in Cuts
  /\ partial' = IF k = Len(wire) THEN partial ELSE partial + 1
  /\ wire' = SubSeq(wire, k + 1, Len(wire))
  /\ RunHandler(rbuf \o SubSeq(wire, 1, k), FALSE)
  /\ UNCHANGED <<sent, rEnded, handshake, encoded>>

\* the peer's FIN arrives after all its bytes: 'readable' is emitted once more
ClientEnd ==
  /\ handshake.listening
  /\ ~sock.destroyed
  /\ ~rEnded
  /\ wire = <<>>
  /\ rEnded' = TRUE
  /\ RunHandler(rbuf, TRUE)
  /\ UNCHANGED <<sent, wire, partial, handshake, encoded>>

Next ==
  \/ OnSocketUpgrade(SampleKey)
  \/ \E fb \in WireBytes : ClientSend(fb)
  \/ \E k \in Cuts : Readable(k)
  \/ ClientEnd

Spec == Init /\ [][Next]_vars


(***************************************************************************)
(* The frame layout of lines 121-140 read as a peer reads it: the first    *)
(* frame of bytes, with a true 64-bit length, a key only when MASK is set, *)
(* and ok = FALSE when bytes holds no complete frame.                      *)
(***************************************************************************)
LayoutFrame(bytes) ==
  LET n == Len(bytes)
      ind == IF n >= 2 THEN bytes[2] % 128 ELSE 0
      isMasked == n >= 2 /\ bytes[2] >= 128
      ext == IF ind = 126 THEN 2 ELSE IF ind = 127 THEN 8 ELSE 0
      \* a 64-bit length of 2^30 or more: more bytes than any buffer here holds
      huge == /\ ind = 127 /\ n >= 10
              /\ \/ SubSeq(bytes, 3, 6) # <<0, 0, 0, 0>>
                 \/ bytes[7] >= 64
      len == IF n < 2 + ext THEN 0
             ELSE IF ind = 126 THEN ReadUInt16BE(SubSeq(bytes, 3, 4))
             ELSE IF ind = 127 /\ ~huge
                  THEN WideValue(ReadUInt32BE(SubSeq(bytes, 7, 10)))
             ELSE ind
      keyLen == IF isMasked THEN 4 ELSE 0
      total == 2 + ext + keyLen + len
      raw == SubSeq(bytes, 2 + ext + keyLen + 1, total)
  IN  IF n < 2 \/ n < 2 + ext \/ huge \/ n < total
      THEN [ok |-> FALSE, fin |-> FALSE, rsv |-> 0, opcode |-> 0, masked |-> FALSE,
            payload |-> <<>>, rest |-> <<>>]
      ELSE [ok |-> TRUE, fin |-> bytes[1] >= 128, rsv |-> (bytes[1] \div 16) % 8,
            opcode |-> bytes[1] % 16, masked |-> isMasked,
            payload |-> IF isMasked
                        THEN Unmask(raw, SubSeq(bytes, 2 + ext + 1, 2 + ext + 4))
                        ELSE raw,
            rest |-> SubSeq(bytes, total + 1, n)]

\* all the frames of bytes, in order; a tail that is no complete frame shows
\* as a last entry with ok = FALSE
RECURSIVE LayoutFrames(_)
LayoutFrames(bytes) ==
  IF bytes = <<>> THEN <<>>
  ELSE LET f == LayoutFrame(bytes)
       IN  IF f.ok THEN <<f>> \o LayoutFrames(f.rest) ELSE <<f>>

(***************************************************************************)
(* Observations on a state.                                                *)
(***************************************************************************)
EncodedLen(f) ==
  LET n == Len(f.payload)
  IN  2 + (IF n <= 125 THEN 0 ELSE IF n <= 65535 THEN 2 ELSE 8)
        + (IF f.masked THEN 4 ELSE 0) + n

RECURSIVE Offset(_)
\* the position in the inbound byte stream where frame i + 1 starts
Offset(i) == IF i = 0 THEN 0 ELSE Offset(i - 1) + EncodedLen(sent[i])

\* where the buffer of the latest run started in the inbound byte stream
StartOffset == Offset(Len(sent)) - Len(wire) - Len(last.before)

\* the latest run found a complete frame of the client at the head of its
\* buffer: frame number HeadIndex of sent
HeadIndexes ==
  {i \in 1..Len(sent) :
     /\ last.outcome # "none"
     /\ Offset(i - 1) = StartOffset
     /\ Len(last.before) >= EncodedLen(sent[i])}

HeadPresent == HeadIndexes # {}
HeadFrame == sent[CHOOSE i \in HeadIndexes : TRUE]

\* what the latest run wrote to the socket
WrittenNow ==
  [i \in 1..(Len(sock.writes) - last.writesBefore) |->
     sock.writes[last.writesBefore + i].bytes]

AllWritten == Flatten([i \in 1..Len(sock.writes) |-> sock.writes[i].bytes])

\* the frame the echo of a Text frame with payload p has to be
EchoPayload(p) == BufferFromString(EchoOf(ToStringUtf8(p)))

\* the status code of a Close payload, 1000 when it carries none
CloseCode(p) == IF Len(p) >= 2 THEN ReadUInt16BE(p) ELSE 1000

IsCloseWith(bytes, code) ==
  LET fs == LayoutFrames(bytes)
  IN  /\ Len(fs) = 1
      /\ fs[1].ok /\ fs[1].fin /\ ~fs[1].masked
      /\ fs[1].opcode = OPCODE_CLOSE
      /\ Len(fs[1].payload) >= 2
      /\ ReadUInt16BE(fs[1].payload) = code


\* a frame a client is allowed to send: masked, final, no reserved bit, a
\* known opcode
ValidClientFrame(f) == f.masked /\ f.fin /\ f.rsv = 0 /\ f.opcode \in OPCODES

\* the latest run had the complete frame of the given kind at the head of
\* its buffer, on a connection the server had not ended
Received(opcodes) ==
  /\ HeadPresent
  /\ HeadFrame.opcode \in opcodes
  /\ ~last.wasEnded

(***************************************************************************)
(* What the handler does get right: a whole masked Text frame with a       *)
(* non-empty message at the head of the buffer of an open connection is    *)
(* echoed in one unmasked Text frame, and a whole masked Ping frame with   *)
(* 1 to 125 payload bytes is answered by one Pong with the same payload.   *)
(***************************************************************************)
LemmaNonEmptyTextEchoed ==
  (/\ Received({OPCODE_TEXT})
   /\ ValidClientFrame(HeadFrame)
   /\ HeadFrame.payload # <<>>)
  => LET fs == LayoutFrames(Flatten(WrittenNow))
     IN  /\ last.outcome = "frame"
         /\ Len(fs) = 1
         /\ fs[1].ok /\ fs[1].fin /\ ~fs[1].masked
         /\ fs[1].opcode = OPCODE_TEXT
         /\ fs[1].payload = EchoPayload(HeadFrame.payload)
         /\ ~sock.ended

LemmaSmallPingAnswered ==
  (/\ Received({OPCODE_PING})
   /\ ValidClientFrame(HeadFrame)
   /\ HeadFrame.payload # <<>>
   /\ Len(HeadFrame.payload) <= 125)
  => LET fs == LayoutFrames(Flatten(WrittenNow))
     IN  /\ last.outcome = "frame"
         /\ Len(fs) = 1
         /\ fs[1].ok /\ fs[1].fin /\ ~fs[1].masked
         /\ fs[1].opcode = OPCODE_PONG
         /\ fs[1].payload = HeadFrame.payload
         /\ ~sock.ended

(***************************************************************************)
(* C1.  Once every byte of a sequence of complete masked Text frames has   *)
(* been delivered in readable events, however grouped, the server has      *)
(* written exactly one echo frame per inbound frame, in the order of the   *)
(* inbound frames.  It is stated here for frames that carry a non-empty    *)
(* message, so that a violation is a loss caused by the grouping alone     *)
(* (the empty message is the case of C8).                                  *)
(***************************************************************************)
C1_EveryTextFrameEchoedInOrder ==
  (/\ sent # <<>>
   /\ \A i \in 1..Len(sent) :
        /\ ValidClientFrame(sent[i])
        /\ sent[i].opcode = OPCODE_TEXT
        /\ sent[i].payload # <<>>
   /\ wire = <<>>)
  => LET fs == LayoutFrames(AllWritten)
     IN  /\ Len(fs) = Len(sent)
         /\ \A i \in 1..Len(sent) :
              /\ fs[i].ok
              /\ fs[i].opcode = OPCODE_TEXT
              /\ fs[i].payload = EchoPayload(sent[i].payload)

(***************************************************************************)
(* C2.  Streaming: a valid frame fed to the decoder in two chunks, in two  *)
(* successive readable events, gives the same decoded frame (opcode, FIN,  *)
(* payload) and the same responses as the whole frame fed in one event.    *)
(***************************************************************************)
C2_SplitFrameDecodesAsWhole ==
  (/\ Len(sent) = 1
   /\ ValidClientFrame(sent[1])
   /\ wire = <<>>
   /\ partial = 1
   /\ ~rEnded)
  => LET whole == ParseFrame(ClientEncode(sent[1]), FALSE)
     IN  /\ last.outcome = whole.outcome
         /\ last.opcode = whole.opcode
         /\ last.fin = whole.fin
         /\ last.decoded = whole.decoded
         /\ sock = OnSocketReadable(whole, InitSock)

(***************************************************************************)
(* C3.  A Ping frame with payload P received on an open connection is      *)
(* answered by exactly one Pong frame with payload P, nothing else is      *)
(* written, and the connection stays open.                                 *)
(***************************************************************************)
C3_PingAnsweredByOnePong ==
  (/\ Received({OPCODE_PING})
   /\ ValidClientFrame(HeadFrame)
   /\ Len(HeadFrame.payload) <= 125)
  => LET fs == LayoutFrames(Flatten(WrittenNow))
     IN  /\ Len(fs) = 1
         /\ fs[1].ok /\ fs[1].fin /\ ~fs[1].masked
         /\ fs[1].opcode = OPCODE_PONG
         /\ fs[1].payload = HeadFrame.payload
         /\ ~sock.ended

(***************************************************************************)
(* C4.  A Close frame received on an open connection is answered by a      *)
(* Close frame carrying the peer's status code, or 1000 when the peer sent *)
(* none, and then the transport is released.                               *)
(***************************************************************************)
C4_CloseEchoedThenReleased ==
  (/\ Received({OPCODE_CLOSE})
   /\ ValidClientFrame(HeadFrame))
  => /\ IsCloseWith(Flatten(WrittenNow), CloseCode(HeadFrame.payload))
     /\ sock.ended

(***************************************************************************)
(* C5.  Closed is terminal: a readable event on a socket the server has    *)
(* ended decodes no frame, and the server attempts no write on it.         *)
(***************************************************************************)
C5_ClosedIsTerminal ==
  /\ last.wasEnded => last.outcome # "frame"
  /\ ~sock.writeAfterEnd

(***************************************************************************)
(* C6.  A frame with an opcode outside 0x0, 0x1, 0x2, 0x8, 0x9, 0xA is a   *)
(* protocol error: the only thing written for it is a Close frame with     *)
(* status code 1002, and the connection is torn down.                      *)
(***************************************************************************)
C6_ReservedOpcodeRejected ==
  Received((0..15) \ OPCODES)
  => /\ IsCloseWith(Flatten(WrittenNow), 1002)
     /\ sock.ended

(***************************************************************************)
(* C8.  A complete masked Text frame with message M received on an open    *)
(* connection is answered by exactly one unmasked Text frame, first byte   *)
(* 0x81, with payload "Echo: " followed by M, and the connection is not    *)
(* ended.                                                                  *)
(***************************************************************************)
C8_TextFrameEchoed ==
  (/\ Received({OPCODE_TEXT})
   /\ ValidClientFrame(HeadFrame))
  => LET bytes == Flatten(WrittenNow)
         fs == LayoutFrames(bytes)
     IN  /\ Len(fs) = 1
         /\ bytes[1] = 129
         /\ fs[1].ok /\ ~fs[1].masked
         /\ fs[1].payload = EchoPayload(HeadFrame.payload)
         /\ ~sock.ended

(***************************************************************************)
(* C9.  In every frame header the server writes, from sendMessage or from  *)
(* sendPong, bit 7 (MASK) of the second byte is 0.                         *)
(***************************************************************************)
C9_ServerFramesNeverMasked ==
  \A i \in 1..Len(sock.writes) :
    sock.writes[i].part = "header" => ~HighBit(sock.writes[i].bytes[2])

(***************************************************************************)
(* C10.  An inbound frame whose MASK bit is 0 is a protocol error: no      *)
(* bytes beyond the frame are read as a masking key, its payload is not    *)
(* decoded or answered, and the connection is closed with code 1002.       *)
(***************************************************************************)
C10_UnmaskedFrameRejected ==
  (/\ HeadPresent
   /\ ~HeadFrame.masked
   /\ ~last.wasEnded)
  => /\ last.outcome # "frame"
     /\ Len(last.before) - Len(rbuf) <= EncodedLen(HeadFrame)
     /\ IsCloseWith(Flatten(WrittenNow), 1002)
     /\ sock.ended


(***************************************************************************)
(* Round trip of the encoder into the decoder: sendMessage builds the      *)
(* frame for a payload of one of the size classes, and the frame is fed    *)
(* back to onSocketreadable through readable events.                       *)
(***************************************************************************)
SizeClasses == {0, 1, 125, 126, 65535, 65536, 70000}

RoundTripPayloads == {Repeat(b, n) : b \in {97, 122}, n \in SizeClasses}

RoundTripEncode(p) ==
  /\ handshake.listening
  /\ sent = <<>>
  /\ sock' = SendMessage(p, sock, OPCODE_TEXT)
  /\ wire' = wire \o Flatten([i \in 1..2 |-> sock'.writes[Len(sock.writes) + i].bytes])
  /\ sent' = <<Frame(TRUE, 0, OPCODE_TEXT, FALSE, BufferFromString(p))>>
  /\ UNCHANGED <<rbuf, rEnded, last, partial, handshake, shutdown, encoded, peer>>

NextRoundTrip ==
  \/ OnSocketUpgrade(SampleKey)
  \/ \E p \in RoundTripPayloads : RoundTripEncode(p)
  \/ \E k \in Cuts : Readable(k)

SpecRoundTrip == Init /\ [][NextRoundTrip]_vars

(***************************************************************************)
(* C7.  Round trip: for a payload P of each size class, the frame that     *)
(* sendMessage produces for P, decoded by onSocketreadable's parsing,      *)
(* yields a frame whose payload equals P.                                  *)
(***************************************************************************)
C7_DecodeOfEncodeIsPayload ==
  HeadPresent => /\ last.outcome = "frame"
                 /\ last.decoded = HeadFrame.payload

(***************************************************************************)
(* The handshake followed by the first frame of the connection: the        *)
(* 'upgrade' event for each of the keys, then one frame of the client.     *)
(***************************************************************************)
FirstSend(fb) == sent = <<>> /\ ClientSend(fb)

NextHandshake ==
  \/ \E key \in UpgradeKeys : OnSocketUpgrade(key)
  \/ \E fb \in WireBytes : FirstSend(fb)
  \/ \E k \in Cuts : Readable(k)
  \/ ClientEnd

SpecHandshake == Init /\ [][NextHandshake]_vars

IsPrefix(p, s) == Len(p) <= Len(s) /\ SubSeq(s, 1, Len(p)) = p

IsBase64Char(c) == \E i \in 1..Len(Base64Alphabet) : Base64Alphabet[i] = c

\* the key is base64 text of exactly 16 bytes: 22 characters of the
\* alphabet followed by "=="
ValidKey(key) ==
  /\ key.present
  /\ Len(key.value) = 24
  /\ \A i \in 1..22 : IsBase64Char(key.value[i])
  /\ key.value[23] = Base64Pad
  /\ key.value[24] = Base64Pad

\* "HTTP/1.1 4", the start of a response with a 400-class status
ClientErrorStart == <<72, 84, 84, 80, 47, 49, 46, 49, 32, 52>>

(***************************************************************************)
(* C11.  When the upgrade request has no Sec-WebSocket-Key header, or its  *)
(* value is not valid base64 of exactly 16 bytes, the handshake fails: no  *)
(* 101 Switching Protocols response is written, no readable listener is    *)
(* attached, a response with a 400-class status is sent and the transport  *)
(* is closed.                                                              *)
(***************************************************************************)
C11_BadKeyFailsHandshake ==
  (handshake # NoHandshake /\ ~ValidKey(handshake.key))
  => /\ ~IsPrefix(StatusLine, handshake.written)
     /\ ~handshake.listening
     /\ IsPrefix(ClientErrorStart, handshake.written)
     /\ sock.ended

\* the text between "Sec-WebSocket-Accept: " and the end of its line in a
\* response laid out as the 101 response is
HeaderFixedPart ==
  StatusLine \o CRLF \o UpgradeLine \o CRLF \o ConnectionLine \o CRLF \o AcceptName

AcceptOf(response) == SubSeq(response, Len(HeaderFixedPart) + 1, Len(response) - 4)

(***************************************************************************)
(* C12.  For every accept token T, the response prepareHandshakeHeader     *)
(* produces is exactly the status line "HTTP/1.1 101 Switching Protocols", *)
(* "Upgrade: websocket", "Connection: Upgrade" and                         *)
(* "Sec-WebSocket-Accept: T", each terminated by CRLF, followed by exactly *)
(* one further CRLF and nothing else; T is one line of text.               *)
(***************************************************************************)
C12_HandshakeHeaderLayout ==
  handshake # NoHandshake
  => LET T == AcceptOf(handshake.written)
     IN  /\ Len(handshake.written) >= Len(HeaderFixedPart) + 4
         /\ T # <<>>
         /\ \A i \in 1..Len(T) : T[i] \notin {13, 10}
         /\ handshake.written = HeaderFixedPart \o T \o CRLF \o CRLF

C12_Witness ==
  /\ handshake.key = OtherKey
  /\ handshake.written # <<>>
  /\ last.outcome = "frame"

\* "s3pPLMBiTxaQ9kYGzzhZRbK+xOo=" (README.md line 76)
SampleAccept ==
  <<115, 51, 112, 80, 76, 77, 66, 105, 84, 120, 97, 81, 57, 107, 89, 71, 122,
    122, 104, 90, 82, 98, 75, 43, 120, 79, 111, 61>>

(***************************************************************************)
(* C13.  The accept token written for a client key is the base64 text of   *)
(* a SHA-1 value (27 characters of the alphabet and one "="), and for the  *)
(* client key "dGhlIHNhbXBsZSBub25jZQ==" it is                             *)
(* "s3pPLMBiTxaQ9kYGzzhZRbK+xOo=", which is base64(SHA-1(key ++            *)
(* "258EAFA5-E914-47DA-95CA-C5AB0DC85B11")).                               *)
(***************************************************************************)
C13_AcceptTokenOfSampleKey ==
  handshake # NoHandshake
  => LET T == AcceptOf(handshake.written)
     IN  /\ Len(T) = 28
         /\ \A i \in 1..27 : IsBase64Char(T[i])
         /\ T[28] = Base64Pad
         /\ handshake.key = SampleKey => T = SampleAccept

C13_Witness ==
  /\ handshake.key = SampleKey
  /\ AcceptOf(handshake.written) = SampleAccept

(***************************************************************************)
(* Masking: the client masks a payload with a key of its choice            *)
(* (QUICK_REFERENCE.md lines 93-96) and the server's loop, lines 187-190,  *)
(* is applied to what arrives.                                             *)
(***************************************************************************)
MaskKeys == {<<0, 0, 0, 0>>, MaskKeyA, <<255, 255, 255, 255>>, <<1, 2, 4, 8>>}

\* no payload, "a", "Hello", and six bytes with every bit both set and clear
MaskPayloads ==
  {<<>>, <<97>>, <<72, 101, 108, 108, 111>>, <<0, 255, 128, 127, 1, 254>>}

MaskedFrame(p, key) == [Frame(TRUE, 0, OPCODE_BINARY, TRUE, p) EXCEPT !.key = key]

MaskedSend(p, key) ==
  /\ handshake.written # <<>>
  /\ sent = <<>>
  /\ sent' = <<MaskedFrame(p, key)>>
  /\ wire' = ClientEncode(MaskedFrame(p, key))
  /\ UNCHANGED <<rbuf, rEnded, sock, last, partial, handshake, shutdown, encoded, peer>>

NextMask ==
  \/ OnSocketUpgrade(SampleKey)
  \/ \E p \in MaskPayloads, key \in MaskKeys : MaskedSend(p, key)
  \/ \E k \in Cuts : Readable(k)
  \/ ClientEnd

SpecMask == Init /\ [][NextMask]_vars

(***************************************************************************)
(* C14.  Masking is involutive: for every payload P and every 4-byte key   *)
(* K, the XOR mask with K applied twice returns P.  The client has applied *)
(* it to the payload of each frame it sent; applied again by the server's  *)
(* loop to a frame that arrived whole, it gives the payload back, and so   *)
(* does the loop applied twice to any payload sent.                        *)
(***************************************************************************)
C14_MaskingIsInvolutive ==
  /\ \A i \in 1..Len(sent) :
       Unmask(Unmask(sent[i].payload, sent[i].key), sent[i].key) = sent[i].payload
  /\ (HeadPresent /\ last.outcome = "frame") => last.decoded = HeadFrame.payload

C14_Witness ==
  /\ HeadPresent
  /\ last.outcome = "frame"
  /\ HeadFrame.key = <<1, 2, 4, 8>>
  /\ Len(HeadFrame.payload) = 6
  /\ Unmask(HeadFrame.payload, HeadFrame.key) # HeadFrame.payload
  /\ last.decoded = HeadFrame.payload

(***************************************************************************)
(* Fragmented messages: the client sends a Text message whole, or as an    *)
(* initial Text frame with FIN = 0 followed by Continuation frames, the    *)
(* last of them with FIN = 1.                                              *)
(***************************************************************************)
FragmentPayloads == {<<97>>, <<98, 99>>}

\* the frames the client may send next: a message is in progress when the
\* latest frame sent has FIN = 0
FragmentChoices ==
  IF sent # <<>> /\ ~sent[Len(sent)].fin
  THEN {Frame(fin, 0, OPCODE_CONTINUATION, TRUE, p) :
          fin \in BOOLEAN, p \in FragmentPayloads}
  ELSE {Frame(fin, 0, OPCODE_TEXT, TRUE, p) :
          fin \in BOOLEAN, p \in FragmentPayloads}

FragmentSend(f) ==
  /\ f \in FragmentChoices
  /\ ClientSend(<<f, ClientEncode(f)>>)

NextFragments ==
  \/ OnSocketUpgrade(SampleKey)
  \/ \E f \in FragmentChoices : FragmentSend(f)
  \/ \E k \in Cuts : Readable(k)
  \/ ClientEnd

SpecFragments == Init /\ [][NextFragments]_vars

HeadIndex == CHOOSE i \in HeadIndexes : TRUE

\* the first frame of the message that frame i of sent belongs to
MessageStart(i) ==
  CHOOSE j \in 1..i :
    /\ sent[j].opcode # OPCODE_CONTINUATION
    /\ \A k \in (j + 1)..i : sent[k].opcode = OPCODE_CONTINUATION

\* the payloads of the fragments up to frame i, in order
Reassembled(i) ==
  LET j == MessageStart(i)
  IN  Flatten([k \in 1..(i - j + 1) |-> sent[j + k - 1].payload])

(***************************************************************************)
(* C15.  A message sent as an initial data frame with FIN = 0 followed by  *)
(* Continuation frames ending in a frame with FIN = 1 is delivered to the  *)
(* application (here: echoed) exactly once, with the concatenation of the  *)
(* fragments' payloads in order: a frame with FIN = 0 is decoded and       *)
(* nothing is delivered for it on its own, and the final Continuation      *)
(* frame delivers the whole message.                                       *)
(***************************************************************************)
C15_FragmentsReassembled ==
  /\ (Received({OPCODE_TEXT, OPCODE_CONTINUATION}) /\ ~HeadFrame.fin)
     => /\ last.outcome = "frame"
        /\ WrittenNow = <<>>
  /\ (Received({OPCODE_CONTINUATION}) /\ HeadFrame.fin)
     => LET fs == LayoutFrames(Flatten(WrittenNow))
        IN  /\ Len(fs) = 1
            /\ fs[1].ok /\ fs[1].opcode = OPCODE_TEXT
            /\ fs[1].payload = EchoPayload(Reassembled(HeadIndex))

\* the latest run met a fatal condition: the whole frame at the head of its
\* buffer is one no client may send, or it carries a payload and the run
\* failed on it (an exception, or the payload could not be read, lines
\* 180-183)
FatalRun ==
  /\ HeadPresent
  /\ ~last.wasEnded
  /\ \/ ~ValidClientFrame(HeadFrame)
     \/ (last.outcome \in {"throw", "nopayload"} /\ HeadFrame.payload # <<>>)

(***************************************************************************)
(* C16.  Each connection is torn down exactly once: socket.end() is not    *)
(* called again on a socket the server has ended (two Close frames in a    *)
(* row), and a fatal condition, a payload that cannot be read included,    *)
(* ends with the connection torn down.                                     *)
(***************************************************************************)
C16_TornDownExactlyOnce ==
  /\ ~(last.wasEnded /\ last.outcome = "frame" /\ last.opcode = OPCODE_CLOSE)
  /\ FatalRun => (sock.ended \/ sock.destroyed)

\* the socket has emitted 'end' (line 108): the peer has ended the stream
\* and a read has found the buffer drained
EndEmitted == rEnded /\ rbuf = <<>>

(***************************************************************************)
(* C17.  After the transport reports disconnection the connection is       *)
(* Closed and no further write is attempted: the run of the handler at     *)
(* the end of the stream writes nothing, even with frames buffered, and    *)
(* once 'end' has been emitted the server's side of the socket is          *)
(* released.                                                               *)
(***************************************************************************)
C17_DisconnectionCloses ==
  /\ rEnded => (WrittenNow = <<>> /\ ~sock.writeAfterEnd)
  /\ EndEmitted => (sock.ended \/ sock.destroyed)

\* a frame the handler answers when it arrives alone: a valid Text or Ping
\* frame with a payload of 1 to 125 bytes
AnsweredAlone(f) ==
  /\ ValidClientFrame(f)
  /\ f.opcode \in {OPCODE_TEXT, OPCODE_PING}
  /\ f.payload # <<>>
  /\ Len(f.payload) <= 125

\* the buffer of the latest run began at the start of frame i of the client
\* and held a part of it only
PartialHeadIndexes ==
  {i \in 1..Len(sent) :
     /\ last.outcome # "none"
     /\ Offset(i - 1) = StartOffset
     /\ last.before # <<>>
     /\ Len(last.before) < EncodedLen(sent[i])}

(***************************************************************************)
(* C18.  When the bytes available are fewer than a complete frame, at any  *)
(* cut point, the decoder needs more input: the run raises no exception,   *)
(* decodes no frame, writes nothing and leaves every byte it was given in  *)
(* the buffer.  (Stated for frames that are answered when they arrive      *)
(* whole.)                                                                 *)
(***************************************************************************)
C18_PartialFrameWaits ==
  (/\ PartialHeadIndexes # {}
   /\ \A i \in PartialHeadIndexes : AnsweredAlone(sent[i])
   /\ ~rEnded
   /\ ~last.wasEnded)
  => /\ last.outcome \notin {"throw", "frame"}
     /\ WrittenNow = <<>>
     /\ rbuf = last.before

(***************************************************************************)
(* C19.  When one readable event finds two or more complete frames in the  *)
(* buffer, that run of the handler decodes and handles all of them in      *)
(* order and leaves only a partial tail: no complete frame stays in the    *)
(* buffer, and there is a response for each of the frames.  (Stated for    *)
(* frames that are answered when they arrive alone.)                       *)
(***************************************************************************)
C19_AllBufferedFramesHandled ==
  (/\ HeadPresent
   /\ ~last.wasEnded
   /\ HeadIndex < Len(sent)
   /\ AnsweredAlone(sent[HeadIndex])
   /\ AnsweredAlone(sent[HeadIndex + 1])
   /\ Len(last.before) >= EncodedLen(sent[HeadIndex]) + EncodedLen(sent[HeadIndex + 1]))
  => /\ ~LayoutFrame(rbuf).ok
     /\ Len(LayoutFrames(Flatten(WrittenNow))) >= 2

(***************************************************************************)
(* C20.  For every outbound payload of length n, sendMessage chooses the   *)
(* minimal length encoding: n <= 125 gives second byte n and no extended   *)
(* length; 126 <= n <= 65535 gives second byte 126 followed by n as 2      *)
(* big-endian bytes; n > 65535 gives second byte 127 followed by n as 8    *)
(* big-endian bytes; and exactly n payload bytes follow the header.        *)
(***************************************************************************)
C20_MinimalLengthEncoding ==
  sent # <<>>
  => LET n == Len(sent[1].payload)
         h == sock.writes[1].bytes
     IN  /\ Len(sock.writes) = 2
         /\ sock.writes[1].part = "header"
         /\ sock.writes[2].part = "payload"
         /\ Len(sock.writes[2].bytes) = n
         /\ n <= 125 => (Len(h) = 2 /\ h[2] = n)
         /\ (126 <= n /\ n <= 65535)
            => (Len(h) = 4 /\ h[2] = 126 /\ h[3] * 256 + h[4] = n)
         /\ n > 65535
            => /\ Len(h) = 10
               /\ h[2] = 127
               /\ SubSeq(h, 3, 7) = <<0, 0, 0, 0, 0>>
               /\ (h[8] * 256 + h[9]) * 256 + h[10] = n

C20_Witness ==
  /\ Len(sock.writes) = 2
  /\ Len(sock.writes[2].bytes) = 126
  /\ sock.writes[1].bytes = <<129, 126, 0, 126>>
  /\ last.outcome # "none"

(***************************************************************************)
(* Length headers.  A client frame given by the bytes of its header: the   *)
(* 7-bit length indicator, the extended length field as the client wrote   *)
(* it, and the payload bytes the client has put on the wire so far (all of *)
(* them for a short frame, the first ones of a frame whose header          *)
(* announces more than the client has sent yet).                           *)
(***************************************************************************)
LengthFrame(indicator, extended, n) ==
  [indicator |-> indicator, extended |-> extended, key |-> MaskKeyA,
   body |-> Unmask(Repeat(97, n), MaskKeyA)]

LengthFrames ==
  {LengthFrame(5, <<>>, 5),
   LengthFrame(SIXTEEN_BIT_INTIGER_MARKER, <<0, 130>>, 130),
   LengthFrame(SIXTYFOUR_BIT_INTIGER_MARKER, <<0, 0, 0, 0, 0, 0, 0, 3>>, 3),
   LengthFrame(SIXTYFOUR_BIT_INTIGER_MARKER, <<0, 0, 0, 0, 0, 1, 0, 0>>, 5),
   LengthFrame(SIXTYFOUR_BIT_INTIGER_MARKER, <<0, 0, 0, 1, 0, 0, 0, 3>>, 5),
   LengthFrame(SIXTYFOUR_BIT_INTIGER_MARKER, <<128, 0, 0, 0, 0, 0, 0, 3>>, 5),
   LengthFrame(SIXTYFOUR_BIT_INTIGER_MARKER, <<255, 255, 255, 255, 0, 0, 0, 3>>, 5)}

\* the header of a final masked Text frame with this length field
LengthHeader(f) ==
  <<128 + OPCODE_TEXT, 128 + f.indicator>> \o f.extended

LengthEncode(f) == LengthHeader(f) \o f.key \o f.body

NextLengths ==
  \/ OnSocketUpgrade(SampleKey)
  \/ \E f \in LengthFrames : ClientSend(<<f, LengthEncode(f)>>)
  \/ \E k \in Cuts : Readable(k)
  \/ ClientEnd

SpecLengths == Init /\ [][NextLengths]_vars

\* the length a header encodes, as its high and low 32-bit halves
EncodedLength(f) ==
  IF f.indicator <= SEVEN_BIT_INTIGER_MARKER
  THEN [high |-> Wide(0), low |-> Wide(f.indicator)]
  ELSE IF f.indicator = SIXTEEN_BIT_INTIGER_MARKER
  THEN [high |-> Wide(0), low |-> Wide(f.extended[1] * 256 + f.extended[2])]
  ELSE [high |-> ReadUInt32BE(SubSeq(f.extended, 1, 4)),
        low |-> ReadUInt32BE(SubSeq(f.extended, 5, 8))]

\* the wide number w is high * 2^32 + low; w.q is below 2^31 here, so the
\* two upper 16-bit limbs of the 64-bit value are 0 and w.q \div 65536
WideIsUInt64(w, v) ==
  /\ w.q >= 0
  /\ v.high.q = 0
  /\ v.high.r = w.q \div 65536
  /\ v.low.q = w.q % 65536
  /\ v.low.r = w.r

\* the latest run began at the first frame of the client, had its whole
\* header and went as far as the read of the payload
LengthDecoded ==
  /\ sent # <<>>
  /\ last.outcome \in {"frame", "nopayload"}
  /\ ~last.wasEnded
  /\ IsPrefix(LengthHeader(sent[1]) \o sent[1].key, last.before)

(***************************************************************************)
(* C21.  The payload length the decoder computes is the value the header   *)
(* encodes: the indicator itself for 0..125, the next 2 bytes big-endian   *)
(* for 126, and for 127 the next 8 bytes as one unsigned 64-bit integer,   *)
(* high half times 2^32 plus low half, whatever the high half is.          *)
(***************************************************************************)
C21_DecodedLengthIsHeaderValue ==
  LengthDecoded => WideIsUInt64(last.messageLength, EncodedLength(sent[1]))

\* the latest run began at the first frame of the client, whose 64-bit
\* extended length has its most significant bit set, and had its header
HighBitLengthAtHead ==
  /\ sent # <<>>
  /\ sent[1].indicator = SIXTYFOUR_BIT_INTIGER_MARKER
  /\ sent[1].extended[1] >= 128
  /\ last.outcome # "none"
  /\ ~last.wasEnded
  /\ IsPrefix(LengthHeader(sent[1]) \o sent[1].key, last.before)

(***************************************************************************)
(* C24.  A frame with length indicator 127 whose 64-bit length has its     *)
(* most significant bit set is a protocol error: the run decodes no frame, *)
(* reads no payload byte under that length, answers with a Close frame     *)
(* carrying 1002 and ends the socket.                                      *)
(***************************************************************************)
C24_HighBitLengthRejected ==
  HighBitLengthAtHead
  => /\ last.outcome # "frame"
     /\ Len(last.before) - Len(rbuf) <= Len(LengthHeader(sent[1])) + 4
     /\ IsCloseWith(Flatten(WrittenNow), 1002)
     /\ sock.ended

\* the headers the latest run wrote to the socket
HeadersWrittenNow ==
  {sock.writes[i].bytes :
     i \in {j \in (last.writesBefore + 1)..Len(sock.writes) :
              sock.writes[j].part = "header"}}

\* a control frame that is fragmented or carries more than 125 bytes
OversizedControl(f) ==
  /\ f.opcode \in {OPCODE_CLOSE, OPCODE_PING, OPCODE_PONG}
  /\ (~f.fin \/ Len(f.payload) > 125)

(***************************************************************************)
(* C22.  A control frame (Close, Ping, Pong) with FIN = 0 or with more     *)
(* than 125 payload bytes is rejected when it is decoded: the run yields   *)
(* no frame and writes no Pong, so a Ping of 126 bytes or more is never    *)
(* answered.                                                               *)
(***************************************************************************)
C22_OversizedControlRejected ==
  (/\ HeadPresent
   /\ OversizedControl(HeadFrame)
   /\ ~last.wasEnded)
  => /\ last.outcome # "frame"
     /\ \A h \in HeadersWrittenNow : h[1] % 16 # OPCODE_PONG

(***************************************************************************)
(* Frames beyond final Text, Ping and Close: a reserved bit set, Binary,   *)
(* Pong, and the fragments of a message.                                   *)
(***************************************************************************)
ProtocolFrames ==
  {Frame(TRUE, 4, OPCODE_TEXT, TRUE, <<97>>),
   Frame(TRUE, 0, OPCODE_TEXT, TRUE, <<97>>),
   Frame(FALSE, 0, OPCODE_TEXT, TRUE, <<98>>),
   Frame(TRUE, 0, OPCODE_CONTINUATION, TRUE, <<99>>),
   Frame(TRUE, 0, OPCODE_BINARY, TRUE, <<97, 98>>),
   Frame(TRUE, 0, OPCODE_PING, TRUE, <<97, 98, 99>>),
   Frame(TRUE, 0, OPCODE_PONG, TRUE, <<>>),
   Frame(TRUE, 0, OPCODE_PONG, TRUE, <<97, 98, 99>>)}

NextProtocol ==
  \/ OnSocketUpgrade(SampleKey)
  \/ \E f \in ProtocolFrames : ClientSend(<<f, ClientEncode(f)>>)
  \/ \E k \in Cuts : Readable(k)
  \/ ClientEnd

SpecProtocol == Init /\ [][NextProtocol]_vars

(***************************************************************************)
(* C23.  A frame whose first byte has one of the reserved bits RSV1-3 set  *)
(* is a protocol error: it is not delivered or answered as a normal frame, *)
(* and the connection is closed with a Close frame carrying code 1002.     *)
(***************************************************************************)
C23_ReservedBitsRejected ==
  (/\ HeadPresent
   /\ HeadFrame.rsv # 0
   /\ ~last.wasEnded)
  => /\ last.outcome # "frame"
     /\ IsCloseWith(Flatten(WrittenNow), 1002)
     /\ sock.ended /\ ~sock.writeAfterEnd

\* what the handler writes for a whole Text frame with payload p
TextAnswer(p) ==
  LET header == SendMessageHeader(Len(EchoPayload(p)), OPCODE_TEXT)
  IN  <<header, EchoPayload(p)>>

(***************************************************************************)
(* C26.  A decoded complete Binary frame is forwarded to the application   *)
(* as a message event exactly as a Text frame is: the application (the     *)
(* echo) answers it as it answers a Text frame with the same payload, and  *)
(* the connection remains open.                                            *)
(***************************************************************************)
C26_BinaryDeliveredAsText ==
  (/\ Received({OPCODE_BINARY})
   /\ ValidClientFrame(HeadFrame)
   /\ HeadFrame.payload # <<>>)
  => /\ last.outcome = "frame"
     /\ last.decoded = HeadFrame.payload
     /\ Len(WrittenNow) = 2
     /\ WrittenNow[2] = TextAnswer(HeadFrame.payload)[2]
     /\ ~sock.ended

(***************************************************************************)
(* C27.  A decoded Pong frame is informational only: the server writes no  *)
(* frame in response, does not end the socket, and the connection stays    *)
(* open.                                                                   *)
(***************************************************************************)
C27_PongIsInformational ==
  (/\ Received({OPCODE_PONG})
   /\ ValidClientFrame(HeadFrame))
  => /\ WrittenNow = <<>>
     /\ ~sock.ended
     /\ ~sock.destroyed
     /\ (HeadFrame.payload # <<>>
           => last.outcome = "frame" /\ last.decoded = HeadFrame.payload)

C27_Witness ==
  /\ Received({OPCODE_PONG})
  /\ HeadFrame.payload = <<97, 98, 99>>
  /\ last.outcome = "frame"
  /\ last.opcode = OPCODE_PONG
  /\ WrittenNow = <<>>
  /\ ~sock.ended

\* frame i of the client arrives while a fragmented message is in progress:
\* an earlier Text or Binary frame had FIN = 0, no final Continuation frame
\* has completed it, and the frames since were well formed
InProgressBefore(i) ==
  \E j \in 1..(i - 1) :
    /\ sent[j].opcode \in {OPCODE_TEXT, OPCODE_BINARY}
    /\ ~sent[j].fin
    /\ \A k \in j..(i - 1) : sent[k].masked /\ sent[k].rsv = 0
    /\ \A k \in (j + 1)..(i - 1) :
         /\ sent[k].opcode \notin {OPCODE_TEXT, OPCODE_BINARY, OPCODE_CLOSE}
         /\ ~(sent[k].opcode = OPCODE_CONTINUATION /\ sent[k].fin)

(***************************************************************************)
(* C28.  While a fragmented message is in progress a new Text or Binary    *)
(* frame is rejected as a protocol error: nothing is echoed for it, a      *)
(* Close frame with 1002 is written and the socket is ended.  Control      *)
(* frames between the fragments are handled as usual: a Ping of 1 to 125   *)
(* bytes is answered by one Pong with its payload and a Pong by nothing,   *)
(* the connection staying open (the answer to a Close is the subject of    *)
(* C4).                                                                    *)
(***************************************************************************)
C28_InterleavedDataRejected ==
  (/\ HeadPresent
   /\ ~last.wasEnded
   /\ InProgressBefore(HeadIndex)
   /\ HeadFrame.masked /\ HeadFrame.rsv = 0)
  => /\ HeadFrame.opcode \in {OPCODE_TEXT, OPCODE_BINARY}
          => /\ IsCloseWith(Flatten(WrittenNow), 1002)
             /\ sock.ended
     /\ (HeadFrame.opcode = OPCODE_PING /\ HeadFrame.fin
           /\ HeadFrame.payload # <<>> /\ Len(HeadFrame.payload) <= 125)
          => /\ WrittenNow = <<SendPongHeader(HeadFrame.payload), HeadFrame.payload>>
             /\ ~sock.ended
     /\ (HeadFrame.opcode = OPCODE_PONG /\ HeadFrame.fin)
          => /\ WrittenNow = <<>>
             /\ ~sock.ended

\* the bytes of s from position Len(s) - n + 1 on
Suffix(s, n) == SubSeq(s, Len(s) - n + 1, Len(s))

\* the complete 101 response is on the socket: status line first, blank
\* line last
ResponseWritten ==
  /\ IsPrefix(StatusLine \o CRLF, handshake.written)
  /\ Len(handshake.written) >= Len(StatusLine) + 6
  /\ Suffix(handshake.written, 4) = CRLF \o CRLF

(***************************************************************************)
(* C29.  The complete handshake response is the first thing written on a   *)
(* connection: whenever a frame byte has been written to the socket, or    *)
(* the frame handler has run on inbound bytes, the 101 response has been   *)
(* written before.                                                         *)
(***************************************************************************)
C29_HandshakeWrittenFirst ==
  (sock.writes # <<>> \/ last.outcome # "none" \/ sock.ended)
  => ResponseWritten

C29_Witness ==
  /\ ResponseWritten
  /\ last.outcome = "frame"
  /\ sock.writes # <<>>

(***************************************************************************)
(* Shutdown.  The SIGINT handler (lines 350-356) calls server.close, which *)
(* stops the listening and touches no upgraded socket; the callback that   *)
(* exits the process runs once the server's last connection has closed.    *)
(***************************************************************************)
Sigint ==
  /\ handshake.listening
  /\ ~shutdown.closing
  /\ shutdown' = [closing |-> TRUE, exited |-> FALSE,
                  open |-> ~sock.ended /\ ~sock.destroyed]
  /\ UNCHANGED <<sent, wire, rbuf, rEnded, sock, last, partial, handshake, encoded, peer>>

\* the socket has closed: destroyed, or ended by the server with the peer's
\* end seen and the buffer drained
SocketClosed == sock.destroyed \/ (sock.ended /\ EndEmitted)

\* lines 352-355: the callback of server.close
ServerClosed ==
  /\ shutdown.closing
  /\ ~shutdown.exited
  /\ SocketClosed
  /\ shutdown' = [shutdown EXCEPT !.exited = TRUE]
  /\ UNCHANGED <<sent, wire, rbuf, rEnded, sock, last, partial, handshake, encoded, peer>>

NextShutdown ==
  \/ OnSocketUpgrade(SampleKey)
  \/ \E fb \in WireBytes : ClientSend(fb)
  \/ \E k \in Cuts : Readable(k)
  \/ ClientEnd
  \/ Sigint
  \/ ServerClosed

SpecShutdown == Init /\ [][NextShutdown]_vars

\* a Close frame is among the frames written to the socket
CloseFrameWritten ==
  \E i \in 1..Len(sock.writes) :
    /\ sock.writes[i].part = "header"
    /\ sock.writes[i].bytes[1] % 16 = OPCODE_CLOSE

(***************************************************************************)
(* C30.  When shutdown is requested (SIGINT) while the connection is open, *)
(* the connection takes the closing path: a Close frame is sent on it and  *)
(* its socket is released (ended or destroyed) by the shutdown itself.     *)
(***************************************************************************)
C30_ShutdownClosesConnections ==
  (shutdown.closing /\ shutdown.open)
  => /\ CloseFrameWritten
     /\ sock.ended \/ sock.destroyed

(***************************************************************************)
(* The 64-bit length field of sendMessage (lines 237-243) as a function of *)
(* dataLength alone, on lengths up to and beyond 2^32.  The echo path      *)
(* cannot hand sendMessage a message of 2^32 bytes (a string of V8 is      *)
(* shorter), so the lengths from 2^32 on show what the encoder would do,   *)
(* not what a connection can observe.                                      *)
(***************************************************************************)
SendMessageLength64(dataLength) ==
  LET upper == WriteUInt32BEWide(Wide(0))
      lower == WriteUInt32BEWide(dataLength)
  IN  IF upper.thrown \/ lower.thrown
      THEN [dataLength |-> dataLength, thrown |-> TRUE, bytes |-> <<>>]
      ELSE [dataLength |-> dataLength, thrown |-> FALSE,
            bytes |-> upper.bytes \o lower.bytes]

\* 16 lengths from each of: 65536, 2^31 - 16, 2^31, 2^32 - 16, 2^32,
\* 2^32 + 65536 and 2^33
EncodeLengths ==
  {WideAdd(base, Wide(d)) :
     base \in {[q |-> 1, r |-> 0], [q |-> 32767, r |-> 65520],
               [q |-> 32768, r |-> 0], [q |-> 65535, r |-> 65520],
               [q |-> 65536, r |-> 0], [q |-> 65537, r |-> 0],
               [q |-> 131072, r |-> 0]},
     d \in 0..15}

EncodeLength(n) ==
  /\ encoded' = SendMessageLength64(n)
  /\ UNCHANGED <<sent, wire, rbuf, rEnded, sock, last, partial, handshake,
                 shutdown, peer>>

NextEncodeLength == \E n \in EncodeLengths : EncodeLength(n)

SpecEncodeLength == Init /\ [][NextEncodeLength]_vars

\* the 8 bytes of the 64-bit big-endian form of a wide number below 2^47
UInt64BE(n) ==
  LET high == n.q \div 65536
      mid == n.q % 65536
  IN  <<0, 0, high \div 256, high % 256,
        mid \div 256, mid % 256, n.r \div 256, n.r % 256>>

RECURSIVE XorBits(_, _)
XorBits(a, b) ==
  IF a = 0 /\ b = 0 THEN 0
  ELSE (((a % 2) + (b % 2)) % 2) + 2 * XorBits(a \div 2, b \div 2)

\* the masking key and the encoded payload of the frame at the head of the
\* latest run's buffer, as they stand in that buffer
HeadKeyStart == EncodedLen(HeadFrame) - Len(HeadFrame.payload) - 4
HeadKey == SubSeq(last.before, HeadKeyStart + 1, HeadKeyStart + 4)
HeadEncoded ==
  SubSeq(last.before, HeadKeyStart + 5, HeadKeyStart + 4 + Len(HeadFrame.payload))

(***************************************************************************)
(* C33.  For a masked frame with key K and encoded payload E of the        *)
(* declared length n, the payload D the handler decodes has length n and   *)
(* D[i] = E[i] XOR K[i mod 4] for every i in 0..n-1.                       *)
(***************************************************************************)
C33_UnmaskedByteByByte ==
  (/\ HeadPresent
   /\ HeadFrame.masked
   /\ last.outcome = "frame")
  => /\ last.messageLength = Wide(Len(HeadFrame.payload))
     /\ Len(last.decoded) = Len(HeadFrame.payload)
     /\ \A i \in 0..(Len(HeadFrame.payload) - 1) :
          last.decoded[i + 1] = XorBits(HeadEncoded[i + 1], HeadKey[(i % 4) + 1])

C33_Witness ==
  /\ HeadPresent
  /\ last.outcome = "frame"
  /\ HeadKey = <<1, 2, 4, 8>>
  /\ Len(HeadEncoded) = 6
  /\ last.decoded # HeadEncoded
  /\ last.decoded[6] = XorBits(HeadEncoded[6], 2)

\* the payload length a frame header declares (-1 for a 64-bit length of
\* 2^31 or more, which no payload written here has)
DeclaredLength(h) ==
  LET indicator == h[2] % 128
  IN  IF indicator <= SEVEN_BIT_INTIGER_MARKER THEN indicator
      ELSE IF indicator = SIXTEEN_BIT_INTIGER_MARKER THEN h[3] * 256 + h[4]
      ELSE IF SubSeq(h, 3, 6) # <<0, 0, 0, 0>> \/ h[7] >= 128 THEN -1
      ELSE ((h[7] * 256 + h[8]) * 256 + h[9]) * 256 + h[10]

(***************************************************************************)
(* C34.  Every frame the server writes is well formed: each header is      *)
(* followed by its payload, and the payload length the header declares (7  *)
(* bits, or the extended length for 126 and 127) is the number of payload  *)
(* bytes written after it.  This includes the Pong frames of sendPong for  *)
(* every Ping payload the decoder accepts, 126 bytes and more too.         *)
(***************************************************************************)
C34_WrittenFramesWellFormed ==
  \A i \in 1..Len(sock.writes) :
    sock.writes[i].part = "header"
    => /\ i < Len(sock.writes)
       /\ sock.writes[i + 1].part = "payload"
       /\ DeclaredLength(sock.writes[i].bytes) = Len(sock.writes[i + 1].bytes)

(***************************************************************************)
(* C36.  The outbound byte stream of a socket is a concatenation of whole  *)
(* frames: the writes come in pairs, a header and then the payload of the  *)
(* same frame (the header is the one sendMessage or sendPong builds for    *)
(* that payload), and nothing of another frame is written between the two, *)
(* however the events interleave.                                          *)
(***************************************************************************)
C36_HeaderAndPayloadContiguous ==
  /\ Len(sock.writes) % 2 = 0
  /\ \A k \in 1..(Len(sock.writes) \div 2) :
       LET header == sock.writes[2 * k - 1]
           payload == sock.writes[2 * k]
       IN  /\ header.part = "header"
           /\ payload.part = "payload"
           /\ \/ header.bytes = SendMessageHeader(Len(payload.bytes), OPCODE_TEXT)
              \/ header.bytes = SendPongHeader(payload.bytes)

C36_Witness ==
  /\ Len(sock.writes) = 4
  /\ sock.writes[1].bytes = SendPongHeader(<<97, 98, 99>>)
  /\ sock.writes[2].bytes = <<97, 98, 99>>
  /\ sock.writes[3].bytes[1] % 16 = OPCODE_TEXT
  /\ sock.writes[4].part = "payload"

NextHead ==
  \/ OnSocketUpgrade(SampleKey)
  \/ \E fb \in WireBytes : OnSocketUpgradeHead(SampleKey, fb)
  \/ \E fb \in WireBytes : ClientSend(fb)
  \/ \E k \in Cuts : Readable(k)
  \/ ClientEnd

SpecHead == Init /\ [][NextHead]_vars

(***************************************************************************)
(* C35.  No inbound byte that follows the upgrade request is lost: frame   *)
(* bytes that came with the request, handed to onSocketUpgrade as head,    *)
(* are part of the frame stream ahead of the bytes read from the socket    *)
(* later: until the frame handler first runs they stand at the front of    *)
(* what it will parse.                                                     *)
(***************************************************************************)
C35_HeadBytesDecodedFirst ==
  (handshake.head # <<>> /\ last.outcome = "none")
  => IsPrefix(handshake.head, rbuf)

\* the event loop delivers what is pending: bytes that have arrived raise
\* 'readable', and the callback of server.close runs once the server has no
\* connection left.  The client is under no obligation to send or to leave.
SpecShutdownFair ==
  /\ Init
  /\ [][NextShutdown]_vars
  /\ WF_vars(\E k \in Cuts : Readable(k))
  /\ WF_vars(ServerClosed)

(***************************************************************************)
(* C38.  Graceful shutdown terminates: once SIGINT has been handled the    *)
(* server eventually reports closed and the process exits, also when an    *)
(* upgraded connection is open at the time of the signal.                  *)
(***************************************************************************)
C38_ShutdownTerminates == shutdown.closing ~> shutdown.exited

(***************************************************************************)
(* Backpressure.  The frames the server may be asked to write, largest     *)
(* first above the high water mark, and a transport that takes the queued  *)
(* chunks one at a time, in order, when it is ready.                       *)
(***************************************************************************)
OutboundFrames ==
  {Frame(TRUE, 0, OPCODE_TEXT, FALSE, Repeat(97, n)) : n \in {0, 1, 126, 16384}}
    \cup {Frame(TRUE, 0, OPCODE_PONG, FALSE, p) : p \in {<<>>, <<97, 98, 99>>}}

\* sendMessage (lines 221-274) or sendPong (lines 282-289) called for f
EncoderSend(f) ==
  /\ handshake.listening
  /\ Len(sent) < MaxFrames
  /\ sent' = Append(sent, f)
  /\ sock' = IF f.opcode = OPCODE_TEXT
             THEN SendMessage(f.payload, sock, OPCODE_TEXT)
             ELSE SendPong(f.payload, sock)
  /\ UNCHANGED <<wire, rbuf, rEnded, last, partial, handshake, shutdown, encoded, peer>>

\* the transport takes the chunk at the head of the queue
Drain ==
  /\ ~sock.destroyed
  /\ sock.flushed < Len(sock.writes)
  /\ sock' = [sock EXCEPT !.flushed = @ + 1,
                          !.pending = @ - Len(sock.writes[sock.flushed + 1].bytes)]
  /\ UNCHANGED <<sent, wire, rbuf, rEnded, last, partial, handshake, shutdown,
                 encoded, peer>>

NextBackpressure ==
  \/ OnSocketUpgrade(SampleKey)
  \/ \E f \in OutboundFrames : EncoderSend(f)
  \/ Drain

SpecBackpressure == Init /\ [][NextBackpressure]_vars

\* the two chunks frame f is written as
ChunksOf(f) ==
  IF f.opcode = OPCODE_TEXT
  THEN <<SendMessageHeader(Len(f.payload), OPCODE_TEXT), f.payload>>
  ELSE <<SendPongHeader(f.payload), f.payload>>

(***************************************************************************)
(* C31.  No outbound frame byte is dropped under backpressure: whatever    *)
(* socket.write returned, every chunk of every frame produced is in the    *)
(* socket's queue in the order produced, the transport has taken a prefix  *)
(* of them, and the bytes it has not taken are all still queued.           *)
(***************************************************************************)
C31_NothingDroppedUnderBackpressure ==
  /\ Len(sock.writes) = 2 * Len(sent)
  /\ \A k \in 1..Len(sent) :
       /\ sock.writes[2 * k - 1].bytes = ChunksOf(sent[k])[1]
       /\ sock.writes[2 * k].bytes = ChunksOf(sent[k])[2]
  /\ sock.flushed \in 0..Len(sock.writes)
  /\ sock.pending >= 0
  /\ sock.flushed = Len(sock.writes) => sock.pending = 0
  /\ sock.pending = 0
       => \A i \in (sock.flushed + 1)..Len(sock.writes) : sock.writes[i].bytes = <<>>

\* a frame was produced while the queue stood above the high water mark,
\* and the transport has since taken everything
C31_Witness ==
  /\ Len(sent) = 2
  /\ Len(sent[1].payload) >= HighWaterMark
  /\ sent[2].opcode = OPCODE_PONG
  /\ sock.writes[4].bytes = <<97, 98, 99>>
  /\ sock.flushed = 4

(***************************************************************************)
(* Two connections of one server.  The second one is upgraded by the same  *)
(* onSocketUpgrade and served by the same handler, on its own socket; its  *)
(* client sends whole frames, one per readable event.                      *)
(***************************************************************************)
PeerUpgrade ==
  /\ ~peer.listening
  /\ ~shutdown.closing
  /\ ~shutdown.exited
  /\ peer' = [peer EXCEPT !.listening = TRUE,
                          !.written = PrepareHandshakeHeader(SampleKey),
                          !.upgradeSaw = last.outcome]
  /\ UNCHANGED <<sent, wire, rbuf, rEnded, sock, last, partial, handshake,
                 shutdown, encoded>>

PeerReadable(fb) ==
  /\ peer.listening
  /\ ~shutdown.exited
  /\ ~peer.sock.destroyed
  /\ peer.frames < MaxFrames
  /\ LET parsed == ParseFrame(peer.rbuf \o fb[2], FALSE)
         after == ReadableOn(parsed, peer.sock, sock)
     IN  /\ peer' = [peer EXCEPT !.rbuf = parsed.rest, !.sock = after.own,
                                 !.outcome = parsed.outcome, !.frames = @ + 1,
                                 !.seen = last.outcome]
         /\ sock' = after.other
         /\ shutdown' = IF parsed.outcome = "throw"
                        THEN UncaughtException(shutdown) ELSE shutdown
  /\ UNCHANGED <<sent, wire, rbuf, rEnded, last, partial, handshake, encoded>>

NextPeers ==
  \/ OnSocketUpgrade(SampleKey)
  \/ \E fb \in WireBytes : FirstSend(fb)
  \/ \E k \in Cuts : Readable(k)
  \/ ClientEnd
  \/ PeerUpgrade
  \/ \E f \in TextFrames \cup PingFrames : PeerReadable(<<f, ClientEncode(f)>>)

SpecPeers == Init /\ [][NextPeers]_vars

(***************************************************************************)
(* C32.  Connections are independent: a step that changes anything of      *)
(* connection A (its read buffer, its socket, its parse state) leaves      *)
(* connection B as it was, and a step of B leaves A as it was, so that     *)
(* what is written to a connection depends on its own bytes only.          *)
(***************************************************************************)
C32_ConnectionsIndependent ==
  [][/\ <<rbuf, rEnded, sock, last>>' # <<rbuf, rEnded, sock, last>>
          => peer' = peer
     /\ peer' # peer
          => <<sent, wire, rbuf, rEnded, sock, last, handshake>>'
               = <<sent, wire, rbuf, rEnded, sock, last, handshake>>]_vars

\* both connections have been answered, B after A, each with its own answer
C32_Witness ==
  /\ last.outcome = "frame"
  /\ sock.writes # <<>>
  /\ peer.seen = "frame"
  /\ peer.outcome = "frame"
  /\ peer.sock.writes # <<>>
  /\ peer.sock.writes # sock.writes

(***************************************************************************)
(* C37.  An exception raised while a readable event of one connection is   *)
(* handled does not stop the server: the process keeps running and the     *)
(* server keeps listening, so that the other connection is still served    *)
(* and a later upgrade is still accepted.                                  *)
(***************************************************************************)
C37_ExceptionDoesNotStopServer ==
  (last.outcome = "throw" \/ peer.outcome = "throw")
  => /\ ~shutdown.exited
     /\ ~shutdown.closing

\* after a run on A has thrown, B was upgraded and a frame of B answered
C37_Witness ==
  /\ last.outcome = "throw"
  /\ peer.upgradeSaw = "throw"
  /\ peer.seen = "throw"
  /\ peer.outcome = "frame"
  /\ peer.sock.writes # <<>>
  /\ ~shutdown.exited

====
